---------------------------- MODULE Spec2Model ----------------------------
(***************************************************************************)
(* Token-passthrough gateway: validate_token_with_keycloak,                *)
(* extract_user_info (token_validator.py), BackendServiceClient            *)
(* .call_service (backend_client.py) and query_backend_service             *)
(* (tools/backend_query_tool.py).                                          *)
(*                                                                         *)
(* JSON / Python values are records [t |-> tag, v |-> payload]:            *)
(*   absent (key not in the mapping), null (None), bool, num, str,         *)
(*   list (payload: a sequence of strings), map (payload: a record whose   *)
(*   fields are the keys the code reads, each a value or Absent),          *)
(*   notjson (a body response.json() cannot decode).                       *)
(* A call's outcome is [exc, msg, value]: exc = "" when it returned.       *)
(***************************************************************************)
EXTENDS Integers, Sequences, FiniteSets, TLC

VARIABLES op, pc, settings, access_token, headers_arg, token_info, user_info,
          introspection_requests, introspection_outcome,
          backend_requests, backend_outcome, result

vars == <<op, pc, settings, access_token, headers_arg, token_info, user_info,
          introspection_requests, introspection_outcome,
          backend_requests, backend_outcome, result>>

---------------------------------------------------------------------------
(* Bounds of the model *)

\* longest role list an introspection body carries
MaxRoles == 1

---------------------------------------------------------------------------
(* Values *)

Absent == [t |-> "absent", v |-> ""]
None == [t |-> "null", v |-> ""]
NotJson == [t |-> "notjson", v |-> ""]
Bool(b) == [t |-> "bool", v |-> b]
Num(n) == [t |-> "num", v |-> n]
Str(s) == [t |-> "str", v |-> s]
List(l) == [t |-> "list", v |-> l]
Map(m) == [t |-> "map", v |-> m]

\* the characters of each string the model iterates over or searches in
Chars(s) ==
  CASE s = "" -> <<>>
    [] s = "x" -> <<"x">>
    [] s = "ab" -> <<"a", "b">>
    [] s = "g" -> <<"g">>
    [] s = "pu" -> <<"p", "u">>
    [] s = "un" -> <<"u", "n">>
    [] s = "em" -> <<"e", "m">>
    [] s = "sb" -> <<"s", "b">>
    [] s = "user" -> <<"u", "s", "e", "r">>
    [] s = "admin" -> <<"a", "d", "m", "i", "n">>
    [] s = "roles" -> <<"r", "o", "l", "e", "s">>

\* Python: a in b, for two strings (substring test)
IsSubstring(a, b) ==
  LET ca == Chars(a)
      cb == Chars(b)
  IN \E i \in 0..(Len(cb) - Len(ca)) :
       \A j \in 1..Len(ca) : cb[i + j] = ca[j]

\* the keys of a mapping value, in order (the model's mappings hold at most "roles")
Keys(m) == IF m.v.roles = Absent THEN <<>> ELSE <<"roles">>

\* Python truthiness (bool(v))
Truthy(x) ==
  CASE x.t = "null" -> FALSE
    [] x.t = "bool" -> x.v
    [] x.t = "num" -> x.v # 0
    [] x.t = "str" -> x.v # ""
    [] x.t = "list" -> Len(x.v) > 0
    [] x.t = "map" -> Len(Keys(x)) > 0
    [] OTHER -> FALSE

\* dict.get(key): the value, None when the key is absent
Get(x) == IF x = Absent THEN None ELSE x

\* Python: a or b
Or(a, b) == IF Truthy(a) THEN a ELSE b

\* Python: str(v) as it appears in an f-string
PyStr(x) ==
  CASE x.t = "null" -> "None"
    [] x.t = "str" -> x.v
    [] OTHER -> "<repr>"

---------------------------------------------------------------------------
(* Outcomes of a call: returned value or raised exception *)

NoMsg == [fmt |-> "", args |-> <<>>]
Msg(f, a) == [fmt |-> f, args |-> a]
\* the pieces of a rendered message, for embedding in another f-string
Rendered(m) == <<m.fmt>> \o m.args
Return(v) == [exc |-> "", msg |-> NoMsg, value |-> v]
Raise(cls, m) == [exc |-> cls, msg |-> m, value |-> None]


\* the local name user_info before its assignment
Unbound == [t |-> "unbound", v |-> ""]

---------------------------------------------------------------------------
(* Python container operations used by extract_user_info *)

\* key in container
PyIn(k, c) ==
  CASE c.t = "str" -> Return(Bool(IsSubstring(k, c.v)))
    [] c.t = "list" -> Return(Bool(\E i \in 1..Len(c.v) : c.v[i] = k))
    [] c.t = "map" -> Return(Bool(\E i \in 1..Len(Keys(c)) : Keys(c)[i] = k))
    [] OTHER -> Raise("TypeError", Msg("argument of type '{}' is not iterable", <<c.t>>))

\* container[key], key a string
PyIndex(c, k) ==
  CASE c.t = "map" ->
         IF \E i \in 1..Len(Keys(c)) : Keys(c)[i] = k
           THEN Return(c.v.roles)
           ELSE Raise("KeyError", Msg("{}", <<k>>))
    [] c.t \in {"str", "list"} ->
         Raise("TypeError", Msg("{} indices must be integers", <<c.t>>))
    [] OTHER -> Raise("TypeError", Msg("'{}' object is not subscriptable", <<c.t>>))

\* list.extend(iterable): the list after the call
PyExtend(l, x) ==
  CASE x.t = "list" -> Return(l \o x.v)
    [] x.t = "str" -> Return(l \o Chars(x.v))
    [] x.t = "map" -> Return(l \o Keys(x))
    [] OTHER -> Raise("TypeError", Msg("'{}' object is not iterable", <<x.t>>))

---------------------------------------------------------------------------
(* token_validator.extract_user_info *)

\* mutant: username is tried before preferred_username
ExtractUsername_UsernameFirst(ti) ==
  Or(Or(Or(Get(ti.v.username), Get(ti.v.preferred_username)),
        Get(ti.v.email)),
     Get(ti.v.sub))

\* username = preferred_username or username or email or sub
ExtractUsername(ti) ==
  Or(Or(Or(Get(ti.v.preferred_username), Get(ti.v.username)),
        Get(ti.v.email)),
     Get(ti.v.sub))

\* Keycloak realm roles: roles.extend(token_info["realm_access"]["roles"])
RealmRoles(ti) ==
  IF ti.v.realm_access = Absent THEN Return(<<>>)
  ELSE LET ra == ti.v.realm_access
           has == PyIn("roles", ra)
       IN IF has.exc # "" THEN has
          ELSE IF ~has.value.v THEN Return(<<>>)
          ELSE LET item == PyIndex(ra, "roles")
               IN IF item.exc # "" THEN item
                  ELSE PyExtend(<<>>, item.value)

\* direct roles claim, taken only if it is a list
DirectRoles(ti) ==
  IF ti.v.roles # Absent /\ ti.v.roles.t = "list" THEN ti.v.roles.v ELSE <<>>

\* groups claim, taken only if it is a list
ExtractGroups(ti) ==
  IF ti.v.groups # Absent /\ ti.v.groups.t = "list" THEN ti.v.groups.v ELSE <<>>

extract_user_info(ti) ==
  LET realm == RealmRoles(ti)
  IN IF realm.exc # "" THEN realm
     ELSE Return([username |-> ExtractUsername(ti),
                  email |-> Get(ti.v.email),
                  user_id |-> Get(ti.v.sub),
                  roles |-> realm.value \o DirectRoles(ti),
                  groups |-> ExtractGroups(ti)])

---------------------------------------------------------------------------
(* httpx exception classes, by the except clause that catches them *)

\* subclasses of httpx.TimeoutException
TimeoutExceptions == {"httpx.ReadTimeout"}
\* subclasses of httpx.RequestError
RequestErrors == TimeoutExceptions \cup {"httpx.ConnectError"}
\* subclasses of httpx.HTTPError
HTTPErrors == RequestErrors \cup {"httpx.HTTPStatusError"}

\* str(n) for the status codes of the model
IntStr(n) ==
  CASE n = 200 -> "200"
    [] n = 302 -> "302"
    [] n = 400 -> "400"
    [] n = 401 -> "401"
    [] n = 403 -> "403"
    [] n = 500 -> "500"
    [] OTHER -> "<int>"

\* what awaiting the HTTP request yields: the response, or the transport's exception
Transport(o) ==
  CASE o.kind = "timeout" -> Raise("httpx.ReadTimeout", Msg("timed out", <<>>))
    [] o.kind = "connect" -> Raise("httpx.ConnectError", Msg("connection refused", <<>>))
    [] o.kind = "invalid_url" -> Raise("httpx.InvalidURL", Msg("invalid url", <<>>))
    [] OTHER -> Return(None)

---------------------------------------------------------------------------
(* token_validator.validate_token_with_keycloak *)

\* mutant: the empty-token check is missing
ValidateGuard_UrlOnly(tok, cfg) ==
  IF cfg.SSO_INTROSPECTION_URL = ""
    THEN Raise("TokenValidationError", Msg("SSO_INTROSPECTION_URL not configured", <<>>))
    ELSE Return(None)

\* the checks before the request: an empty token, an unconfigured URL
ValidateGuard(tok, cfg) ==
  IF tok = ""
    THEN Raise("TokenValidationError", Msg("Access token is required", <<>>))
  ELSE IF cfg.SSO_INTROSPECTION_URL = ""
    THEN Raise("TokenValidationError", Msg("SSO_INTROSPECTION_URL not configured", <<>>))
  ELSE Return(None)

\* the POST the validator sends
IntrospectionRequest(tok, cfg) ==
  [url |-> cfg.SSO_INTROSPECTION_URL, token |-> tok,
   client_id |-> cfg.SSO_CLIENT_ID, client_secret |-> cfg.SSO_CLIENT_SECRET]

\* response.raise_for_status(): raises unless the status is 2xx
raise_for_status(status) == ~(status \in 200..299)

\* mutant: the `active` field is not checked
ValidateTry_NoActiveCheck(o) ==
  LET sent == Transport(o)
  IN IF sent.exc # "" THEN sent
     ELSE IF raise_for_status(o.status)
       THEN Raise("httpx.HTTPStatusError", Msg("status {}", <<IntStr(o.status)>>))
     ELSE IF o.body = NotJson
       THEN Raise("json.JSONDecodeError", Msg("Expecting value", <<>>))
     ELSE IF o.body.t # "map"
       THEN Raise("AttributeError", Msg("'{}' object has no attribute 'get'", <<o.body.t>>))
     ELSE Return(o.body)

\* the body of the try block, from the awaited response on
ValidateTry(o) ==
  LET sent == Transport(o)
  IN IF sent.exc # "" THEN sent
     ELSE IF raise_for_status(o.status)
       THEN Raise("httpx.HTTPStatusError", Msg("status {}", <<IntStr(o.status)>>))
     ELSE IF o.body = NotJson
       THEN Raise("json.JSONDecodeError", Msg("Expecting value", <<>>))
     ELSE IF o.body.t # "map"
       THEN Raise("AttributeError", Msg("'{}' object has no attribute 'get'", <<o.body.t>>))
     ELSE IF ~Truthy(Get(o.body.v.active))
       THEN Raise("TokenValidationError", Msg("Token is not active or has expired", <<>>))
     ELSE Return(o.body)

\* mutant: every failure is re-raised with one fixed message
validate_response_Generic(o) ==
  LET r == ValidateTry(o)
  IN IF r.exc = "" THEN r
     ELSE Raise("TokenValidationError", Msg("Token validation failed", <<>>))

\* the try block with its two except clauses
validate_response(o) ==
  LET r == ValidateTry(o)
  IN IF r.exc = "" THEN r
     ELSE IF r.exc \in HTTPErrors
       THEN Raise("TokenValidationError",
                  Msg("Failed to validate token: {}", Rendered(r.msg)))
     ELSE Raise("TokenValidationError",
                Msg("Token validation error: {}", Rendered(r.msg)))

---------------------------------------------------------------------------
(* backend_client.BackendServiceClient.call_service *)

\* response.json() of a backend body
JsonDecode(text) ==
  CASE text = "{\"id\": 1}" -> Return([id |-> 1])
    [] text = "{\"error\": \"denied\"}" -> Return([error |-> "denied"])
    [] OTHER -> Raise("json.JSONDecodeError", Msg("Expecting value", <<>>))

\* the decoded body as an f-string renders it
PyRepr(text) ==
  CASE text = "{\"id\": 1}" -> "{'id': 1}"
    [] text = "{\"error\": \"denied\"}" -> "{'error': 'denied'}"
    [] OTHER -> "<repr>"

\* f"{self.base_url}/{endpoint.lstrip('/')}" for the tool's default arguments
Url == "http://localhost:8080/realms/master/protocol/openid-connect/userinfo"

\* the check before the request: an empty token
CallGuard(tok) ==
  IF tok = ""
    THEN Raise("BackendServiceError", Msg("Access token is required", <<>>))
    ELSE Return(None)

\* mutant: headers.setdefault("Authorization", ...), a caller's value is kept
RequestHeaders_KeepCaller(h, tok) ==
  [k \in DOMAIN h \cup {"Authorization"} |->
     IF k \in DOMAIN h THEN h[k] ELSE Msg("Bearer {}", <<tok>>)]

\* headers = kwargs.pop("headers", {}); headers["Authorization"] = f"Bearer {access_token}"
RequestHeaders(h, tok) ==
  [k \in DOMAIN h \cup {"Authorization"} |->
     IF k = "Authorization" THEN Msg("Bearer {}", <<tok>>) ELSE h[k]]

\* the request call_service sends
BackendRequest(tok, method, h) ==
  [method |-> method, headers |-> RequestHeaders(h, tok)]

\* mutant: the generic branch tests > 400, so a 400 counts as a success
HandleResponse_Gt400(o) ==
  IF o.status = 401
    THEN Raise("BackendServiceError",
               Msg("Backend service authentication failed - token may be invalid", <<>>))
  ELSE IF o.status = 403
    THEN Raise("BackendServiceError",
               Msg("Backend service authorization failed - insufficient permissions", <<>>))
  ELSE IF o.status > 400
    THEN Raise("BackendServiceError",
               Msg("Backend service error: {} - {}",
                   <<IntStr(o.status),
                     IF JsonDecode(o.text).exc = "" THEN PyRepr(o.text) ELSE o.text>>))
  ELSE IF JsonDecode(o.text).exc = ""
    THEN Return(JsonDecode(o.text).value)
  ELSE Return([content |-> o.text, status_code |-> o.status])

\* mutant: the 403 branch is missing, a 403 falls into the generic branch
HandleResponse_No403(o) ==
  IF o.status = 401
    THEN Raise("BackendServiceError",
               Msg("Backend service authentication failed - token may be invalid", <<>>))
  ELSE IF o.status >= 400
    THEN Raise("BackendServiceError",
               Msg("Backend service error: {} - {}",
                   <<IntStr(o.status),
                     IF JsonDecode(o.text).exc = "" THEN PyRepr(o.text) ELSE o.text>>))
  ELSE IF JsonDecode(o.text).exc = ""
    THEN Return(JsonDecode(o.text).value)
  ELSE Return([content |-> o.text, status_code |-> o.status])

\* the status-code ladder and the JSON decoding of the body
HandleResponse(o) ==
  IF o.status = 401
    THEN Raise("BackendServiceError",
               Msg("Backend service authentication failed - token may be invalid", <<>>))
  ELSE IF o.status = 403
    THEN Raise("BackendServiceError",
               Msg("Backend service authorization failed - insufficient permissions", <<>>))
  ELSE IF o.status >= 400
    THEN Raise("BackendServiceError",
               Msg("Backend service error: {} - {}",
                   <<IntStr(o.status),
                     IF JsonDecode(o.text).exc = "" THEN PyRepr(o.text) ELSE o.text>>))
  ELSE IF JsonDecode(o.text).exc = ""
    THEN Return(JsonDecode(o.text).value)
  ELSE Return([content |-> o.text, status_code |-> o.status])

\* mutant: the except httpx.TimeoutException clause is missing and RequestError
\* is narrowed to connection errors, so a timeout leaves call_service as it is
call_service_response_NoTimeout(o) ==
  LET sent == Transport(o)
      r == IF sent.exc # "" THEN sent ELSE HandleResponse(o)
  IN IF r.exc \in RequestErrors \ TimeoutExceptions
       THEN Raise("BackendServiceError",
                  Msg("Backend service request failed: {}", Rendered(r.msg)))
     ELSE r

\* the try block with its two except clauses
call_service_response(o) ==
  LET sent == Transport(o)
      r == IF sent.exc # "" THEN sent ELSE HandleResponse(o)
  IN IF r.exc \in TimeoutExceptions
       THEN Raise("BackendServiceError", Msg("Backend service timeout: {}", <<Url>>))
     ELSE IF r.exc \in RequestErrors
       THEN Raise("BackendServiceError",
                  Msg("Backend service request failed: {}", Rendered(r.msg)))
     ELSE r

---------------------------------------------------------------------------
(* tools.backend_query_tool.query_backend_service *)

\* Step 4: the combined result
SuccessEnvelope(ui, backend_response) ==
  [status |-> "success",
   user |-> ui,
   backend_response |-> backend_response,
   message |-> Msg("Successfully called backend service as {}", <<PyStr(ui.username)>>)]

\* mutant: the last-resort except Exception clause is missing
HandleException_NoCatchAll(e, ui) ==
  IF e.exc = "TokenValidationError"
    THEN [status |-> "error", error |-> "token_validation_failed", message |-> e.msg]
  ELSE IF e.exc = "BackendServiceError"
    THEN [status |-> "error", error |-> "backend_service_failed", message |-> e.msg,
          user |-> IF ui # Unbound THEN ui ELSE None]
  ELSE e

\* mutant: the validation-failure envelope carries user: None as well
HandleException_UserNull(e, ui) ==
  IF e.exc = "TokenValidationError"
    THEN [status |-> "error", error |-> "token_validation_failed", message |-> e.msg,
          user |-> IF ui # Unbound THEN ui ELSE None]
  ELSE IF e.exc = "BackendServiceError"
    THEN [status |-> "error", error |-> "backend_service_failed", message |-> e.msg,
          user |-> IF ui # Unbound THEN ui ELSE None]
  ELSE [status |-> "error", error |-> "unexpected_error", message |-> e.msg]

\* the three except clauses; ui is the local user_info, Unbound before its assignment
HandleException(e, ui) ==
  IF e.exc = "TokenValidationError"
    THEN [status |-> "error", error |-> "token_validation_failed", message |-> e.msg]
  ELSE IF e.exc = "BackendServiceError"
    THEN [status |-> "error", error |-> "backend_service_failed", message |-> e.msg,
          user |-> IF ui # Unbound THEN ui ELSE None]
  ELSE [status |-> "error", error |-> "unexpected_error", message |-> e.msg]

---------------------------------------------------------------------------
(* Inputs: tokens, configuration, what the two HTTP endpoints answer *)

Tokens == {"", "tokA", "tokB"}

SettingsChoices ==
  {[SSO_INTROSPECTION_URL |-> u, SSO_CLIENT_ID |-> "mcp", SSO_CLIENT_SECRET |-> "secret"] :
     u \in {"", "http://keycloak/introspect"}}

RoleNames == {"admin", "user"}
RoleLists == UNION {[1..k -> RoleNames] : k \in 0..MaxRoles}

NameVals(s) == {Absent, Str(""), Str(s)}

RealmVals ==
  {Absent, None, Num(1), Str("x"), Str("roles"), List(<<>>), List(<<"roles">>),
   Map([roles |-> Absent]), Map([roles |-> None]), Map([roles |-> Num(1)]),
   Map([roles |-> Str("ab")])}
  \cup {Map([roles |-> List(l)]) : l \in RoleLists}

RolesVals == {Absent, None, Str("ab")} \cup {List(l) : l \in RoleLists}

GroupVals == {Absent, Str("g"), List(<<"g">>)}

\* values of the `active` field: missing, falsy and truthy ones
ActiveVals == {Absent, None, Bool(FALSE), Str(""), Bool(TRUE), Num(1)}

TokenInfo(a, pu, un, em, sb, ra, rl, gr) ==
  Map([active |-> a, preferred_username |-> pu, username |-> un, email |-> em,
       sub |-> sb, realm_access |-> ra, roles |-> rl, groups |-> gr])

\* introspection results handed to extract_user_info on its own
ExtractInputs ==
  {TokenInfo(Bool(TRUE), pu, un, em, sb, ra, rl, gr) :
     pu \in NameVals("pu"), un \in NameVals("un"), em \in NameVals("em"),
     sb \in NameVals("sb"), ra \in RealmVals, rl \in RolesVals, gr \in GroupVals}

\* bodies the introspection endpoint answers with
IntrospectionBodies ==
  {NotJson, List(<<>>)}
  \cup {TokenInfo(a, pu, Absent, Absent, sb, ra, rl, Absent) :
          a \in ActiveVals, pu \in {Absent, Str("pu")},
          sb \in NameVals("sb"), ra \in RealmVals, rl \in {Absent, List(<<"user">>)}}

ActiveBody ==
  TokenInfo(Bool(TRUE), Str("pu"), Absent, Absent, Absent, Absent, Absent, Absent)

NoOutcome == [kind |-> "none", status |-> 0, body |-> NotJson, text |-> ""]
Failure(k) == [kind |-> k, status |-> 0, body |-> NotJson, text |-> ""]
IntrospectionResponse(st, b) == [kind |-> "response", status |-> st, body |-> b, text |-> ""]
BackendResponse(st, txt) == [kind |-> "response", status |-> st, body |-> NotJson, text |-> txt]

IntrospectionOutcomes ==
  {Failure("timeout"), Failure("connect")}
  \cup {IntrospectionResponse(200, b) : b \in IntrospectionBodies}
  \cup {IntrospectionResponse(st, b) : st \in {302, 401, 500}, b \in {NotJson, ActiveBody}}

BackendTexts == {"{\"id\": 1}", "{\"error\": \"denied\"}", "Service Unavailable"}

BackendOutcomes ==
  {Failure("timeout"), Failure("connect"), Failure("invalid_url")}
  \cup {BackendResponse(st, txt) : st \in {200, 302, 400, 401, 403, 500}, txt \in BackendTexts}

NoHeaders == [k \in {} |-> NoMsg]
CallerHeader(k) == IF k = "Authorization" THEN Msg("Basic abc", <<>>) ELSE Msg("trace-1", <<>>)
HeaderChoices == {[k \in D |-> CallerHeader(k)] : D \in SUBSET {"Authorization", "X-Trace"}}

\* a call that has not finished
Pending == [exc |-> "pending", msg |-> NoMsg, value |-> None]

---------------------------------------------------------------------------
(* The state machine *)

Init ==
  /\ op = "idle"
  /\ pc = "idle"
  /\ settings \in SettingsChoices
  /\ access_token = ""
  /\ headers_arg = NoHeaders
  /\ token_info = Unbound
  /\ user_info = Unbound
  /\ introspection_requests = <<>>
  /\ introspection_outcome = NoOutcome
  /\ backend_requests = <<>>
  /\ backend_outcome = NoOutcome
  /\ result = Pending

\* query_backend_service is called: validate_token_with_keycloak up to its await
QueryStart ==
  /\ op = "idle"
  /\ op' = "query"
  /\ \E tok \in Tokens :
       /\ access_token' = tok
       /\ LET g == ValidateGuard(tok, settings)
          IN IF g.exc # ""
               THEN /\ result' = HandleException(g, Unbound)
                    /\ pc' = "done"
                    /\ UNCHANGED introspection_requests
               ELSE /\ introspection_requests' =
                         Append(introspection_requests, IntrospectionRequest(tok, settings))
                    /\ pc' = "await_introspection"
                    /\ UNCHANGED result
  /\ UNCHANGED <<settings, headers_arg, token_info, user_info, introspection_outcome,
                 backend_requests, backend_outcome>>

\* the introspection call completes: rest of validation, extract_user_info,
\* call_service up to its await
QueryIntrospectionReturns ==
  /\ op = "query"
  /\ pc = "await_introspection"
  /\ \E o \in IntrospectionOutcomes :
       /\ introspection_outcome' = o
       /\ LET v == validate_response(o)
              e == extract_user_info(v.value)
              c == CallGuard(access_token)
          IN IF v.exc # ""
               THEN /\ result' = HandleException(v, Unbound)
                    /\ pc' = "done"
                    /\ UNCHANGED <<token_info, user_info, backend_requests>>
             ELSE IF e.exc # ""
               THEN /\ token_info' = v.value
                    /\ result' = HandleException(e, Unbound)
                    /\ pc' = "done"
                    /\ UNCHANGED <<user_info, backend_requests>>
             ELSE IF c.exc # ""
               THEN /\ token_info' = v.value
                    /\ user_info' = e.value
                    /\ result' = HandleException(c, e.value)
                    /\ pc' = "done"
                    /\ UNCHANGED backend_requests
             ELSE /\ token_info' = v.value
                  /\ user_info' = e.value
                  /\ backend_requests' =
                       Append(backend_requests,
                              BackendRequest(access_token, "GET", NoHeaders))
                  /\ pc' = "await_backend"
                  /\ UNCHANGED result
  /\ UNCHANGED <<op, settings, access_token, headers_arg, introspection_requests,
                 backend_outcome>>

\* the backend call completes: rest of call_service, the envelope
QueryBackendReturns ==
  /\ op = "query"
  /\ pc = "await_backend"
  /\ \E o \in BackendOutcomes :
       /\ backend_outcome' = o
       /\ LET r == call_service_response(o)
          IN result' = IF r.exc = "" THEN SuccessEnvelope(user_info, r.value)
                       ELSE HandleException(r, user_info)
  /\ pc' = "done"
  /\ UNCHANGED <<op, settings, access_token, headers_arg, token_info, user_info,
                 introspection_requests, introspection_outcome, backend_requests>>

\* validate_token_with_keycloak called on its own
ValidateStart ==
  /\ op = "idle"
  /\ op' = "validate"
  /\ \E tok \in Tokens :
       /\ access_token' = tok
       /\ LET g == ValidateGuard(tok, settings)
          IN IF g.exc # ""
               THEN /\ result' = g
                    /\ pc' = "done"
                    /\ UNCHANGED introspection_requests
               ELSE /\ introspection_requests' =
                         Append(introspection_requests, IntrospectionRequest(tok, settings))
                    /\ pc' = "await_introspection"
                    /\ UNCHANGED result
  /\ UNCHANGED <<settings, headers_arg, token_info, user_info, introspection_outcome,
                 backend_requests, backend_outcome>>

ValidateIntrospectionReturns ==
  /\ op = "validate"
  /\ pc = "await_introspection"
  /\ \E o \in IntrospectionOutcomes :
       /\ introspection_outcome' = o
       /\ result' = validate_response(o)
  /\ pc' = "done"
  /\ UNCHANGED <<op, settings, access_token, headers_arg, token_info, user_info,
                 introspection_requests, backend_requests, backend_outcome>>

\* BackendServiceClient.call_service called on its own, with caller headers
CallServiceStart ==
  /\ op = "idle"
  /\ op' = "call"
  /\ \E tok \in Tokens, h \in HeaderChoices :
       /\ access_token' = tok
       /\ headers_arg' = h
       /\ LET g == CallGuard(tok)
          IN IF g.exc # ""
               THEN /\ result' = g
                    /\ pc' = "done"
                    /\ UNCHANGED backend_requests
               ELSE /\ backend_requests' =
                         Append(backend_requests, BackendRequest(tok, "GET", h))
                    /\ pc' = "await_backend"
                    /\ UNCHANGED result
  /\ UNCHANGED <<settings, token_info, user_info, introspection_requests,
                 introspection_outcome, backend_outcome>>

\* mutant: a timed-out request is sent once more before call_service gives up
CallBackendReturns_RetryOnTimeout ==
  /\ op = "call"
  /\ pc = "await_backend"
  /\ \E o \in BackendOutcomes :
       /\ backend_outcome' = o
       /\ IF o.kind = "timeout" /\ Len(backend_requests) < 2
            THEN /\ backend_requests' = Append(backend_requests, backend_requests[1])
                 /\ pc' = "await_backend"
                 /\ UNCHANGED result
            ELSE /\ result' = call_service_response(o)
                 /\ pc' = "done"
                 /\ UNCHANGED backend_requests
  /\ UNCHANGED <<op, settings, access_token, headers_arg, token_info, user_info,
                 introspection_requests, introspection_outcome>>

CallBackendReturns ==
  /\ op = "call"
  /\ pc = "await_backend"
  /\ \E o \in BackendOutcomes :
       /\ backend_outcome' = o
       /\ result' = call_service_response(o)
  /\ pc' = "done"
  /\ UNCHANGED <<op, settings, access_token, headers_arg, token_info, user_info,
                 introspection_requests, introspection_outcome, backend_requests>>

\* extract_user_info called on its own
ExtractCall ==
  /\ op = "idle"
  /\ op' = "extract"
  /\ \E ti \in ExtractInputs :
       /\ token_info' = ti
       /\ result' = extract_user_info(ti)
  /\ pc' = "done"
  /\ UNCHANGED <<settings, access_token, headers_arg, user_info, introspection_requests,
                 introspection_outcome, backend_requests, backend_outcome>>

\* the call has returned; nothing is kept between requests
Finish ==
  /\ pc = "done"
  /\ op' = "idle"
  /\ pc' = "idle"
  /\ access_token' = ""
  /\ headers_arg' = NoHeaders
  /\ token_info' = Unbound
  /\ user_info' = Unbound
  /\ introspection_requests' = <<>>
  /\ introspection_outcome' = NoOutcome
  /\ backend_requests' = <<>>
  /\ backend_outcome' = NoOutcome
  /\ result' = Pending
  /\ UNCHANGED settings

Next ==
  \/ QueryStart
  \/ QueryIntrospectionReturns
  \/ QueryBackendReturns
  \/ ValidateStart
  \/ ValidateIntrospectionReturns
  \/ CallServiceStart
  \/ CallBackendReturns
  \/ ExtractCall
  \/ Finish

Spec == Init /\ [][Next]_vars

---------------------------------------------------------------------------
(* What a run was given, stated on the raw inputs and answers *)

\* the introspection endpoint answered 2xx with a JSON mapping
WellFormed(o) ==
  /\ o.kind = "response"
  /\ o.status >= 200 /\ o.status < 300
  /\ o.body.t = "map"

\* ... whose `active` is neither missing nor falsy
AnsweredActive(o) ==
  /\ WellFormed(o)
  /\ o.body.v.active \notin {Absent, None, Bool(FALSE), Str(""), Num(0)}

\* ... whose `active` is false or missing
AnsweredInactive(o) == WellFormed(o) /\ ~AnsweredActive(o)

\* connection error, timeout or non-2xx status
TransportFailure(o) ==
  \/ o.kind \in {"timeout", "connect"}
  \/ o.kind = "response" /\ ~(o.status >= 200 /\ o.status < 300)

\* the validation step of the current run has failed
ValidationFailed ==
  \/ access_token = ""
  \/ settings.SSO_INTROSPECTION_URL = ""
  \/ introspection_outcome # NoOutcome /\ ~AnsweredActive(introspection_outcome)

\* the validation step of the current run has succeeded
ValidationSucceeded ==
  /\ access_token # ""
  /\ settings.SSO_INTROSPECTION_URL # ""
  /\ AnsweredActive(introspection_outcome)

QueryDone == op = "query" /\ pc = "done"

---------------------------------------------------------------------------
(* C1: in a run of query_backend_service a backend request is issued only   *)
(* after that run's introspection call returned a body with truthy active; *)
(* when validation fails for any reason the run issues no backend request. *)
C1_BackendOnlyAfterActive ==
  op = "query" =>
    /\ Len(backend_requests) > 0 =>
         /\ Len(introspection_requests) = 1
         /\ AnsweredActive(introspection_outcome)
    /\ ValidationFailed => Len(backend_requests) = 0

C1_Witness ==
  /\ op = "query"
  /\ pc = "await_backend"
  /\ Len(backend_requests) = 1
  /\ AnsweredActive(introspection_outcome)

(* C2: query_backend_service lets no exception escape: whatever the        *)
(* validation step, the identity extraction and the backend call do, the   *)
(* run returns an envelope whose status is success or error, an error      *)
(* envelope's tag being token_validation_failed, backend_service_failed or *)
(* unexpected_error.                                                       *)
C2_AlwaysAnEnvelope ==
  QueryDone =>
    /\ "status" \in DOMAIN result
    /\ "exc" \notin DOMAIN result
    /\ result.status \in {"success", "error"}
    /\ result.status = "error" =>
         /\ "error" \in DOMAIN result
         /\ result.error \in {"token_validation_failed", "backend_service_failed",
                              "unexpected_error"}

\* a failure of the backend call that is neither of the two known kinds
C2_Witness ==
  /\ QueryDone
  /\ backend_outcome.kind = "invalid_url"
  /\ result.status = "error"
  /\ result.error = "unexpected_error"

(* C3: whenever the validation step of query_backend_service fails, the    *)
(* envelope is {status: error, error: token_validation_failed, message}    *)
(* and has no user field at all.                                           *)
C3_ValidationFailureEnvelope ==
  QueryDone /\ ValidationFailed =>
    /\ DOMAIN result = {"status", "error", "message"}
    /\ result.status = "error"
    /\ result.error = "token_validation_failed"

C3_Witness ==
  /\ QueryDone
  /\ introspection_outcome.kind = "timeout"
  /\ result.error = "token_validation_failed"
  /\ "user" \notin DOMAIN result

\* the backend call failed in one of the ways call_service reports
BackendFailed(o) ==
  \/ o.kind \in {"timeout", "connect"}
  \/ o.kind = "response" /\ o.status >= 400

(* C4: whenever the backend call fails after validation succeeded (401,    *)
(* 403, any other status >= 400, timeout, connection error) the envelope   *)
(* is {status: error, error: backend_service_failed, message, user} with   *)
(* user the identity extracted from the run's introspection result; no     *)
(* backend_service_failed envelope has a null or absent user.              *)
C4_BackendFailureEnvelope ==
  QueryDone =>
    /\ BackendFailed(backend_outcome) =>
         /\ DOMAIN result = {"status", "error", "message", "user"}
         /\ result.status = "error"
         /\ result.error = "backend_service_failed"
         /\ result.user = extract_user_info(introspection_outcome.body).value
    /\ result.status = "error" /\ result.error = "backend_service_failed" =>
         /\ "user" \in DOMAIN result
         /\ result.user # None
         /\ result.user # Unbound
         /\ ValidationSucceeded

C4_Witness ==
  /\ QueryDone
  /\ backend_outcome.kind = "timeout"
  /\ result.error = "backend_service_failed"
  /\ result.user.username = Str("pu")

(* C5: query_backend_service returns a success envelope exactly when       *)
(* validation succeeded and the backend answered with a status below 400;  *)
(* the envelope is {status: success, user, backend_response, message},     *)
(* user being the extracted identity, backend_response the client's result *)
(* (the decoded JSON, or {content, status_code} for a body that is not     *)
(* JSON) and message "Successfully called backend service as <username>". *)
C5_SuccessEnvelope ==
  QueryDone =>
    /\ result.status = "success" <=>
         /\ ValidationSucceeded
         /\ backend_outcome.kind = "response"
         /\ backend_outcome.status < 400
    /\ result.status = "success" =>
         /\ DOMAIN result = {"status", "user", "backend_response", "message"}
         /\ result.user = extract_user_info(introspection_outcome.body).value
         /\ result.backend_response =
              IF JsonDecode(backend_outcome.text).exc = ""
                THEN JsonDecode(backend_outcome.text).value
                ELSE [content |-> backend_outcome.text,
                      status_code |-> backend_outcome.status]
         /\ result.message =
              Msg("Successfully called backend service as {}",
                  <<PyStr(result.user.username)>>)

C5_Witness ==
  /\ QueryDone
  /\ result.status = "success"
  /\ backend_outcome.status = 200
  /\ result.backend_response = [id |-> 1]
  /\ result.message = Msg("Successfully called backend service as {}", <<"pu">>)

(* C6: for an empty access token validate_token_with_keycloak and          *)
(* call_service each fail at once with their error and issue no network    *)
(* request, whatever the configuration and the other arguments.            *)
C6_EmptyTokenNoRequest ==
  /\ op = "validate" /\ access_token = "" =>
       /\ pc = "done"
       /\ result.exc = "TokenValidationError"
       /\ Len(introspection_requests) = 0
       /\ introspection_outcome = NoOutcome
  /\ op = "call" /\ access_token = "" =>
       /\ pc = "done"
       /\ result.exc = "BackendServiceError"
       /\ Len(backend_requests) = 0
       /\ backend_outcome = NoOutcome

C6_Witness ==
  /\ op = "call"
  /\ access_token = ""
  /\ "Authorization" \in DOMAIN headers_arg
  /\ pc = "done"
  /\ result.exc = "BackendServiceError"

(* C7: when the introspection endpoint answers with a well-formed body     *)
(* whose active is false or missing, validation fails with an error that   *)
(* no transport-level failure (connection error, timeout, non-2xx status)  *)
(* produces: the two causes never yield the same error outcome.            *)
C7_InactiveDistinctFromTransport ==
  op = "validate" /\ pc = "done" /\ AnsweredInactive(introspection_outcome) =>
    /\ result.exc = "TokenValidationError"
    /\ \A o \in IntrospectionOutcomes :
         TransportFailure(o) => validate_response(o) # result

C7_Witness ==
  /\ op = "validate"
  /\ pc = "done"
  /\ AnsweredInactive(introspection_outcome)
  /\ introspection_outcome.body.v.active = Bool(FALSE)
  /\ result.exc = "TokenValidationError"

\* the body of a backend answer as call_service reports it in a message
BodyInMessage(text) ==
  CASE text = "{\"id\": 1}" -> "{'id': 1}"
    [] text = "{\"error\": \"denied\"}" -> "{'error': 'denied'}"
    [] OTHER -> text

\* the value call_service returns for a body
BodyReturned(text, status) ==
  CASE text = "{\"id\": 1}" -> [id |-> 1]
    [] text = "{\"error\": \"denied\"}" -> [error |-> "denied"]
    [] OTHER -> [content |-> text, status_code |-> status]

(* C8: call_service classifies a backend response in this order: 401 is an *)
(* authentication failure, 403 an authorization failure, any other status  *)
(* >= 400 a request failure whose message holds the status code and the    *)
(* parsed JSON body (the raw text when the body is not JSON); a status     *)
(* below 400 returns the decoded JSON body, or {content, status_code} when *)
(* the body is not JSON. The three failures are distinct outcomes.         *)
C8_ResponseClassification ==
  op = "call" /\ pc = "done" /\ backend_outcome.kind = "response" =>
    LET st == backend_outcome.status
        txt == backend_outcome.text
    IN /\ st = 401 =>
            /\ result.exc = "BackendServiceError"
            /\ result.msg.fmt =
                 "Backend service authentication failed - token may be invalid"
       /\ st = 403 =>
            /\ result.exc = "BackendServiceError"
            /\ result.msg.fmt =
                 "Backend service authorization failed - insufficient permissions"
       /\ st >= 400 /\ st \notin {401, 403} =>
            /\ result.exc = "BackendServiceError"
            /\ result.msg =
                 Msg("Backend service error: {} - {}", <<IntStr(st), BodyInMessage(txt)>>)
       /\ st < 400 =>
            /\ result.exc = ""
            /\ result.value = BodyReturned(txt, st)

C8_Witness ==
  /\ op = "call"
  /\ pc = "done"
  /\ backend_outcome.status = 200
  /\ backend_outcome.text = "Service Unavailable"
  /\ result.exc = ""
  /\ result.value = [content |-> "Service Unavailable", status_code |-> 200]

ExtractDone == op = "extract" /\ pc = "done"

(* C9: extract_user_info cannot fail: for every introspection result,      *)
(* whatever the shape of realm_access, realm_access.roles, roles and       *)
(* groups, it returns a record with username, email, user_id, roles and    *)
(* groups and raises nothing, so no run that passed validation ends in an  *)
(* unexpected_error envelope because of identity extraction.               *)
C9_ExtractNeverFails ==
  /\ ExtractDone =>
       /\ result.exc = ""
       /\ DOMAIN result.value = {"username", "email", "user_id", "roles", "groups"}
  /\ QueryDone /\ ValidationSucceeded /\ backend_outcome = NoOutcome =>
       result.error # "unexpected_error"

\* a claim that is there and not empty
Present(x) == x \notin {Absent, None, Str("")}

\* the first of the four name claims that is present and not empty, else `rest`
FirstPresent(ti, rest) ==
  IF Present(ti.v.preferred_username) THEN ti.v.preferred_username
  ELSE IF Present(ti.v.username) THEN ti.v.username
  ELSE IF Present(ti.v.email) THEN ti.v.email
  ELSE IF Present(ti.v.sub) THEN ti.v.sub
  ELSE rest

\* a claim as dict.get reads it: null when the key is missing
Claim(x) == IF x = Absent THEN None ELSE x

(* C10 as stated: username is the first non-empty of preferred_username,   *)
(* username, email, sub in that order, and null when none of the four is   *)
(* present and non-empty; email and user_id are the email and sub claims.  *)
C10_UsernameNullWhenNoneNonEmpty ==
  ExtractDone /\ result.exc = "" =>
    /\ result.value.username = FirstPresent(token_info, None)
    /\ result.value.email = Claim(token_info.v.email)
    /\ result.value.user_id = Claim(token_info.v.sub)

(* C10 amended: username is the first non-empty of preferred_username,     *)
(* username, email, sub in that order; when none of the four is present    *)
(* and non-empty it is the value of the sub claim (null when sub is        *)
(* missing, the empty value when sub is present and empty); email and      *)
(* user_id are the email and sub claims whichever was chosen.              *)
C10_UsernamePriority ==
  ExtractDone /\ result.exc = "" =>
    /\ result.value.username = FirstPresent(token_info, Claim(token_info.v.sub))
    /\ result.value.email = Claim(token_info.v.email)
    /\ result.value.user_id = Claim(token_info.v.sub)

\* preferred_username missing, username empty: email is chosen over sub
C10_Witness ==
  /\ ExtractDone
  /\ result.exc = ""
  /\ token_info.v.preferred_username = Absent
  /\ token_info.v.username = Str("")
  /\ token_info.v.email = Str("em")
  /\ token_info.v.sub = Str("sb")
  /\ result.value.username = Str("em")
  /\ result.value.user_id = Str("sb")

\* a claim's elements if it is a list, nothing otherwise
ListOrNothing(x) == IF x.t = "list" THEN x.v ELSE <<>>

\* realm_access.roles if realm_access is a mapping holding a roles list
RealmRoleList(ti) ==
  IF ti.v.realm_access.t = "map"
    THEN ListOrNothing(ti.v.realm_access.v.roles)
    ELSE <<>>

(* C11: the roles extract_user_info produces are realm_access.roles (taken *)
(* only if realm_access is present and holds a roles list) followed by the *)
(* top-level roles claim (taken only if it is a list), duplicates kept; a  *)
(* roles or realm_access.roles value that is not a list contributes        *)
(* nothing and is not an error; groups is the groups claim if it is a list *)
(* and the empty sequence otherwise.                                       *)
C11_RolesConcatenation ==
  ExtractDone =>
    /\ result.exc = ""
    /\ result.value.roles = RealmRoleList(token_info) \o ListOrNothing(token_info.v.roles)
    /\ result.value.groups = ListOrNothing(token_info.v.groups)

(* C12: no network call is retried: whatever fails, a run issues at most   *)
(* one introspection request and at most one backend request, and a        *)
(* call_service invocation with a non-empty token makes exactly one HTTP   *)
(* attempt.                                                                *)
C12_NoRetry ==
  /\ Len(introspection_requests) <= 1
  /\ Len(backend_requests) <= 1
  /\ op = "call" /\ access_token # "" => Len(backend_requests) = 1
  /\ op = "query" /\ pc = "await_backend" => Len(backend_requests) = 1

\* a run whose backend call failed at the transport has still sent one request of each
C12_Witness ==
  /\ QueryDone
  /\ backend_outcome.kind = "connect"
  /\ Len(introspection_requests) = 1
  /\ Len(backend_requests) = 1

=============================================================================
